---- MODULE Spec2Model ----
(***************************************************************************)
(* A state-machine model of the useSocket hook (src/src/service/           *)
(* useSocket.ts): the hook's React state, its refs, the sockets it has     *)
(* opened through the client library, and one action per callback of the   *)
(* hook (socket event handlers, the countdown tick, the effect body and    *)
(* its cleanup, the public operations).                                    *)
(*                                                                         *)
(* Conventions.  An optional value is a sequence of length at most one:    *)
(* Null is the absent value and Some(x) the present one.  Dates are        *)
(* modelled by their presence (a BOOLEAN), application states and          *)
(* payloads by functions from a subset of Keys to Vals.  The variable      *)
(* `last` records what the most recent callback did (its result, the       *)
(* errors it passed to handleError, the messages it emitted), `sync` is a  *)
(* history variable used to state the merge property.                      *)
(***************************************************************************)
EXTENDS Integers, Sequences, FiniteSets, TLC

\* ---------------------------------------------------------------- bounds
\* io() instances one hook instance may create in a behaviour
MaxSockets == 2
\* calls of on() in a behaviour of the scenario of the subscriptions
MaxSubs == 2
\* calls of on() in a behaviour of any other scenario
MaxSubsElsewhere == 1
\* partial updates the history variable counts after a full update
MaxPartials == 2

\* ------------------------------------------------------ program constants
\* the retry options the caller configures (lines 34-36 give the defaults
\* 5, 1000 and 5000): three attempts, and a cap the third attempt reaches
reconnectionAttempts == 3
reconnectionDelay == 1000
reconnectionDelayMax == 2500
\* the period of the countdown (line 201) and its step (line 192)
TickMs == 1000

\* ------------------------------------------------------------ data domains
Null == <<>>
Some(x) == <<x>>

Keys == {"count", "name"}
Vals == {-1, 1}
\* objects pushed by the server: every non-empty object over Keys
Payloads == UNION {[D -> Vals] : D \in (SUBSET Keys) \ {{}}}
\* arguments the caller passes to updateState / replaceState
OutPayloads == {p \in Payloads : DOMAIN p = {"count"}}
Rooms == {"", "lobby"}
Validators == {"none", "countNonNeg"}
Reasons == {"io server disconnect", "transport close"}
ClientDisconnect == "io client disconnect"

\* the caller's predicate: options.stateValidator, when configured
\* (s => s.count >= 0; a missing count is rejected)
Accepts(validator, s) ==
  IF validator = "countNonNeg"
    THEN "count" \in DOMAIN s /\ s["count"] >= 0
    ELSE TRUE

\* stateValidator && !stateValidator(x)
Rejected(validator, s) == validator # "none" /\ ~Accepts(validator, s)

\* faulty variant: { ...update, ...prev }
MergeStateKeepsPrev(prev, update) ==
  [k \in (DOMAIN prev) \cup (DOMAIN update) |->
     IF k \in DOMAIN prev THEN prev[k] ELSE update[k]]

\* { ...prev, ...update }
MergeState(prev, update) ==
  [k \in (DOMAIN prev) \cup (DOMAIN update) |->
     IF k \in DOMAIN update THEN update[k] ELSE prev[k]]

\* ------------------------------------------------------------------ errors
ErrorPayload(t, m, d) == [type |-> t, message |-> m, code |-> 0, details |-> d]

\* Math.min(reconnectionDelay * Math.pow(2, attemptNumber - 1), reconnectionDelayMax)
Min(a, b) == IF a <= b THEN a ELSE b
\* faulty variant: no floor
MaxOfSecond(a, b) == b
Max(a, b) == IF a >= b THEN a ELSE b
RECURSIVE Pow2(_)
Pow2(n) == IF n <= 0 THEN 1 ELSE 2 * Pow2(n - 1)
Delay(attemptNumber) ==
  Min(reconnectionDelay * Pow2(attemptNumber - 1), reconnectionDelayMax)

\* ------------------------------------------- connect_error classification
ConnectErrorMessages ==
  {"refused", "timeout", "auth", "auth timeout", "unauthorized",
   "unauthorized timeout"}

\* a message as the sequence of its characters
Chars(m) ==
  CASE m = "refused" -> <<"r","e","f","u","s","e","d">>
    [] m = "timeout" -> <<"t","i","m","e","o","u","t">>
    [] m = "auth" -> <<"a","u","t","h">>
    [] m = "auth timeout" -> <<"a","u","t","h"," ","t","i","m","e","o","u","t">>
    [] m = "unauthorized" -> <<"u","n","a","u","t","h","o","r","i","z","e","d">>
    [] m = "unauthorized timeout" ->
         <<"u","n","a","u","t","h","o","r","i","z","e","d"," ",
           "t","i","m","e","o","u","t">>

\* String.prototype.includes
Includes(m, sub) ==
  LET h == Chars(m)
      n == Chars(sub)
  IN \E i \in 0..(Len(h) - Len(n)) :
       \A j \in 1..Len(n) : h[i + j] = n[j]

\* faulty variant: the first matching substring decides
ErrorTypeOfFirstMatch(m) ==
  IF Includes(m, "timeout") THEN "timeout"
  ELSE IF Includes(m, "auth") THEN "authentication"
  ELSE IF Includes(m, "unauthorized") THEN "authorization"
  ELSE "connection"

\* the three consecutive ifs of the connect_error handler: a later match
\* overwrites an earlier one
ErrorTypeOf(m) ==
  LET t0 == "connection"
      t1 == IF Includes(m, "timeout") THEN "timeout" ELSE t0
      t2 == IF Includes(m, "auth") THEN "authentication" ELSE t1
      t3 == IF Includes(m, "unauthorized") THEN "authorization" ELSE t2
  IN t3

\* error payloads the server pushes on the 'error' event
ServerErrors ==
  {[type |-> "server", message |-> "Internal server error", code |-> 500,
    details |-> "server"]}

\* --------------------------------------------------------------- variables
VARIABLES
  scope,             \* the scenario explored: fixed for a behaviour
  opts,              \* the options of the latest render
  phase,             \* where the component is in its commit cycle
  effect,            \* the effect closure now installed (its cleanup pending)
  state,             \* useState: application state
  connection,        \* useState: SocketConnectionState
  error,             \* useState: SocketError | null
  reconnectionInfo,  \* useState: ReconnectionInfo
  sockets,           \* every socket io() has returned, in creation order
  socketRef,         \* socketRef.current: an index of sockets, 0 for null
  timers,            \* the live setInterval timers
  reconnectionTimerRef, \* reconnectionTimerRef.current: a timer id, 0 for null
  eventListenersRef, \* eventListenersRef.current: the keys of the map
  subs,              \* the unsubscribe closures on() has returned
  last,              \* what the most recent callback did
  sync               \* history: the merge the updates since the last full one describe

vars ==
  <<scope, opts, phase, effect, state, connection, error, reconnectionInfo, sockets,
    socketRef, timers, reconnectionTimerRef, eventListenersRef, subs, last,
    sync>>

hookState == <<state, connection, error, reconnectionInfo>>

\* ------------------------------------------------------------ observations
\* op is the callback that ran last ("" before the first one and after an
\* event no handler of the hook received), ret the result of a public
\* operation, raised the types of the errors passed to handleError, sent the
\* messages emitted, validated and handled the calls of the caller's
\* validator and error handler, cleared the live timers it cancelled
Quiet ==
  [op |-> "", ret |-> "none", raised |-> <<>>, sent |-> <<>>, validated |-> 0,
   handled |-> 0, cleared |-> 0]

Did(op) == [Quiet EXCEPT !.op = op]

Msg(e, r, d) == [event |-> e, room |-> r, data |-> d]

\* faulty variant: an error already in the slot is kept
ErrorAfterKeepsFirst(raised) ==
  IF raised = <<>> \/ error # Null THEN error ELSE Some(raised[Len(raised)])

\* handleError: the slot holds the payload raised last; the caller's handler
\* is invoked once per raised error when one is supplied
ErrorAfter(raised) ==
  IF raised = <<>> THEN error ELSE Some(raised[Len(raised)])

Types(raised) == [i \in 1..Len(raised) |-> raised[i].type]

Handled(raised) == IF opts.errorHandler THEN Len(raised) ELSE 0

\* the socket handlers call the handleError of the render whose effect
\* registered them: errorHandler is no dependency of the effect (lines 271-279)
HandledByEffect(raised) == IF effect.errorHandler THEN Len(raised) ELSE 0

\* ------------------------------------------------------------ the sockets
\* A socket of the client library, as far as the hook can observe it:
\*   status    "closed"     no connection and none being attempted
\*             "opening"    first or manual connection attempt in progress
\*             "connected"  socket.connected is true
\*             "waiting"    a failure happened, the manager is backing off
\*             "attempting" a reconnection attempt is in progress
\*   attempts  reconnection attempts the manager has made since it last
\*             connected or gave up
\*   handlers  the hook's built-in handlers are registered on it
\*   listeners the listeners registered through on(), in order
NewSocket ==
  [status |-> "opening", attempts |-> 0, handlers |-> TRUE, listeners |-> <<>>]

Connected(i) == i # 0 /\ sockets[i].status = "connected"

\* socket.disconnect(): closes the socket and stops the manager's retries
Closed(sock) == [sock EXCEPT !.status = "closed", !.attempts = 0]

\* socket.connect(): a no-op when connected or while the manager is already
\* trying, otherwise a new connection attempt
Opened(sock) ==
  IF sock.status = "closed" THEN [sock EXCEPT !.status = "opening"] ELSE sock

\* faulty variant: the ref is reset but clearInterval is not called
TimersKept == timers

\* clearReconnectionTimer
TimersCleared ==
  IF reconnectionTimerRef # 0
    THEN {t \in timers : t.id # reconnectionTimerRef}
    ELSE timers

\* the clearInterval calls of clearReconnectionTimer
Cancelled == IF reconnectionTimerRef # 0 THEN 1 ELSE 0

\* the id setInterval returns: one no live timer has
NewTimerId(live) ==
  CHOOSE n \in 1..(Cardinality(live) + 1) : \A t \in live : t.id # n

\* ------------------------------------------------------------------- Init
\* faulty variant: the hook starts in the connecting status
InitConnectionConnecting ==
  [isConnected |-> FALSE, isConnecting |-> TRUE, connectionId |-> 0,
   connectedAt |-> FALSE, lastDisconnectedAt |-> FALSE,
   disconnectReason |-> ""]

InitConnection ==
  [isConnected |-> FALSE, isConnecting |-> FALSE, connectionId |-> 0,
   connectedAt |-> FALSE, lastDisconnectedAt |-> FALSE,
   disconnectReason |-> ""]

InitReconnectionInfo ==
  [attempt |-> 0, maxAttempts |-> reconnectionAttempts, nextRetryIn |-> 0,
   isReconnecting |-> FALSE]

NoEffect ==
  [live |-> FALSE, socket |-> 0, room |-> "", stateValidator |-> "none",
   errorHandler |-> FALSE]

\* The scenarios.  The hook's four pieces of React state observe the socket
\* independently of each other, so the model explores the machine along
\* four scenarios, each with the callbacks and the options it is about:
\*   "connection"  the connection manager and the reconnection tracker
\*   "state"       the state synchronizer, the error channel and the
\*                 outbound operations
\*   "bridge"      the event bridge
\*   "teardown"    listeners and countdowns across teardown and unmount
\*   "subscriptions"  several subscriptions through on()
\* Mount, re-render, teardown, unmount and the 'connect' event are part of
\* every scenario.
Scopes == {"connection", "state", "bridge", "teardown", "subscriptions"}

\* the options a scenario varies; the others keep one value
Options(sc) ==
  [room : IF sc = "bridge" THEN Rooms ELSE {""},
   autoConnect : BOOLEAN,
   stateValidator : IF sc = "state" THEN Validators ELSE {"none"},
   errorHandler : IF sc = "bridge" THEN BOOLEAN ELSE {TRUE}]

\* the first render: every useState and useRef holds its initial value and
\* the effect has not run yet
Init ==
  /\ scope \in Scopes
  /\ opts \in Options(scope)
  /\ phase = "mounting"
  /\ effect = NoEffect
  /\ state = Null
  /\ connection = InitConnection
  /\ error = Null
  /\ reconnectionInfo = InitReconnectionInfo
  /\ sockets = <<>>
  /\ socketRef = 0
  /\ timers = {}
  /\ reconnectionTimerRef = 0
  /\ eventListenersRef = {}
  /\ subs = {}
  /\ last = Quiet
  /\ sync = [expected |-> Null, partials |-> 0]

\* -------------------------------------------------------------- lifecycle
\* the effect body (lines 99-254): returns early without auto-connect,
\* otherwise opens a socket, registers the handlers and marks connecting
RunEffect ==
  /\ phase \in {"mounting", "effect"}
  /\ phase' = "idle"
  /\ last' = Did("effect")
  /\ IF ~opts.autoConnect
       THEN /\ effect' = NoEffect
            /\ UNCHANGED <<sockets, socketRef, connection>>
       ELSE /\ Len(sockets) < MaxSockets
            /\ sockets' = Append(sockets, NewSocket)
            /\ socketRef' = Len(sockets) + 1
            /\ connection' = [connection EXCEPT !.isConnecting = TRUE]
            /\ effect' = [live |-> TRUE, socket |-> Len(sockets) + 1,
                          room |-> opts.room,
                          stateValidator |-> opts.stateValidator,
                          errorHandler |-> opts.errorHandler]
  /\ UNCHANGED <<scope, opts, state, error, reconnectionInfo, timers,
                 reconnectionTimerRef, eventListenersRef, subs, sync>>

\* faulty variant: the room is missing from the dependency list
DepsChangedIgnoringRoom(o) == o.autoConnect # opts.autoConnect

\* the dependency list of the effect (lines 271-279), as far as the options
\* of the model go
DepsChanged(o) == o.room # opts.room \/ o.autoConnect # opts.autoConnect

\* a render with other options: the effect is scheduled again only when a
\* dependency changed, after the cleanup of the installed one
Rerender(o) ==
  /\ phase = "idle"
  /\ o \in Options(scope)
  /\ o # opts
  /\ (DepsChanged(o) /\ o.autoConnect) => Len(sockets) < MaxSockets
  /\ opts' = o
  /\ phase' = IF ~DepsChanged(o) THEN "idle"
              ELSE IF effect.live THEN "cleanup" ELSE "effect"
  /\ last' = Did("render")
  /\ UNCHANGED <<scope, effect, state, connection, error, reconnectionInfo,
                 sockets, socketRef, timers, reconnectionTimerRef,
                 eventListenersRef, subs, sync>>

\* the component is removed
Unmount ==
  /\ phase = "idle"
  /\ phase' = IF effect.live THEN "unmounting" ELSE "unmounted"
  /\ last' = Did("unmount")
  /\ UNCHANGED <<scope, opts, effect, state, connection, error, reconnectionInfo,
                 sockets, socketRef, timers, reconnectionTimerRef,
                 eventListenersRef, subs, sync>>

\* the socket after the cleanup: the eight off() calls, then disconnect()
\* (whose 'disconnect' event finds no handler of the hook any more)
CleanedUp(sock) == Closed([sock EXCEPT !.handlers = FALSE])

\* the cleanup the effect returned (lines 255-270)
Cleanup ==
  /\ phase \in {"cleanup", "unmounting"}
  /\ phase' = IF phase = "unmounting" THEN "unmounted" ELSE "effect"
  /\ timers' = TimersCleared
  /\ reconnectionTimerRef' = 0
  /\ eventListenersRef' = {}
  /\ sockets' = [sockets EXCEPT ![effect.socket] = CleanedUp(@)]
  /\ effect' = [effect EXCEPT !.live = FALSE]
  /\ last' = [Did("cleanup") EXCEPT !.cleared = Cancelled]
  /\ UNCHANGED <<scope, opts, state, connection, error, reconnectionInfo, socketRef,
                 subs, sync>>

\* ------------------------------------------------- socket event handlers
\* Events reach the hook between renders.  A socket whose built-in handlers
\* were removed still changes its own status, and the hook sees nothing.
Unhandled ==
  /\ last' = Quiet
  /\ UNCHANGED <<state, connection, error, reconnectionInfo, timers,
                 reconnectionTimerRef, sync>>

\* setConnection of the 'connect' handler (lines 120-125)
ConnectedState(i) ==
  [isConnected |-> TRUE, isConnecting |-> FALSE, connectionId |-> i,
   connectedAt |-> TRUE, lastDisconnectedAt |-> FALSE, disconnectReason |-> ""]

\* faulty variant: the remaining time of the countdown is left in place
ReconnectionResetKeepsRetry(info) ==
  [info EXCEPT !.attempt = 0, !.isReconnecting = FALSE]

\* setReconnectionInfo of the 'connect' handler (lines 127-132)
ReconnectionReset(info) ==
  [info EXCEPT !.attempt = 0, !.isReconnecting = FALSE, !.nextRetryIn = 0]

\* the join message of the 'connect' handler (lines 136-139)
JoinMessages(room) ==
  IF room # "" THEN <<Msg("joinRoom", room, Null)>> ELSE <<>>

\* 'connect' (lines 118-140)
SocketConnect(i) ==
  /\ phase = "idle"
  /\ sockets[i].status \in {"opening", "attempting"}
  /\ sockets' = [sockets EXCEPT ![i].status = "connected", ![i].attempts = 0]
  /\ IF sockets[i].handlers
       THEN /\ connection' = ConnectedState(i)
            /\ error' = Null
            /\ reconnectionInfo' = ReconnectionReset(reconnectionInfo)
            /\ timers' = TimersCleared
            /\ reconnectionTimerRef' = 0
            /\ last' = [Did("onConnect") EXCEPT
                          !.sent = JoinMessages(effect.room),
                          !.cleared = Cancelled]
            /\ UNCHANGED <<state, sync>>
       ELSE Unhandled
  /\ UNCHANGED <<scope, opts, phase, effect, socketRef, eventListenersRef, subs>>

\* setConnection of the 'disconnect' handler (lines 144-150)
DisconnectedState(conn, reason) ==
  [conn EXCEPT !.isConnected = FALSE, !.isConnecting = FALSE,
               !.lastDisconnectedAt = TRUE, !.disconnectReason = reason]

\* faulty variant: every disconnect is reported as an error
DisconnectErrorsAlways(reason) ==
  <<ErrorPayload("connection", "Server forcibly disconnected the socket",
                 "reason,details")>>

\* the error of the 'disconnect' handler (lines 153-159)
DisconnectErrors(reason) ==
  IF reason = "io server disconnect"
    THEN <<ErrorPayload("connection", "Server forcibly disconnected the socket",
                        "reason,details")>>
    ELSE <<>>

\* the 'disconnect' handler (lines 142-160), from the transport or from the
\* hook's own socket.disconnect()
HandleDisconnect(reason) ==
  /\ connection' = DisconnectedState(connection, reason)
  /\ error' = ErrorAfter(DisconnectErrors(reason))
  /\ last' = [Did("onDisconnect") EXCEPT
                !.raised = Types(DisconnectErrors(reason)),
                !.handled = HandledByEffect(DisconnectErrors(reason))]

\* 'disconnect' (lines 142-160): after a server-initiated disconnect the
\* library does not reconnect, after a transport failure it does
SocketDisconnect(i, reason) ==
  /\ phase = "idle"
  /\ sockets[i].status = "connected"
  /\ sockets' = [sockets EXCEPT
       ![i].status = IF reason = "io server disconnect" THEN "closed" ELSE "waiting",
       ![i].attempts = 0]
  /\ IF sockets[i].handlers
       THEN /\ HandleDisconnect(reason)
            /\ UNCHANGED <<state, reconnectionInfo, timers,
                           reconnectionTimerRef, sync>>
       ELSE Unhandled
  /\ UNCHANGED <<scope, opts, phase, effect, socketRef, eventListenersRef, subs>>

\* the error of the 'connect_error' handler (lines 165-174)
ConnectErrors(m) == <<ErrorPayload(ErrorTypeOf(m), m, "originalError")>>

\* 'connect_error' (lines 162-175): a failed attempt; a rejection by the
\* server's authentication closes the socket, any other failure is retried
SocketConnectError(i, m) ==
  /\ phase = "idle"
  /\ sockets[i].status \in {"opening", "attempting"}
  /\ sockets' = [sockets EXCEPT
       ![i].status = IF Includes(m, "auth") THEN "closed" ELSE "waiting",
       ![i].attempts = IF Includes(m, "auth") THEN 0 ELSE @]
  /\ IF sockets[i].handlers
       THEN /\ connection' = [connection EXCEPT !.isConnecting = FALSE]
            /\ error' = ErrorAfter(ConnectErrors(m))
            /\ last' = [Did("onConnectError") EXCEPT
                          !.raised = Types(ConnectErrors(m)),
                          !.handled = HandledByEffect(ConnectErrors(m))]
            /\ UNCHANGED <<state, reconnectionInfo, timers,
                           reconnectionTimerRef, sync>>
       ELSE Unhandled
  /\ UNCHANGED <<scope, opts, phase, effect, socketRef, eventListenersRef, subs>>

\* setReconnectionInfo of the 'reconnect_attempt' handler (lines 178-183)
Reconnecting(info, attemptNumber) ==
  [info EXCEPT !.attempt = attemptNumber, !.isReconnecting = TRUE,
               !.maxAttempts = reconnectionAttempts]

\* 'reconnect_attempt' (lines 177-202): the manager starts attempt n; the
\* handler restarts the countdown with timeLeft = delay
ReconnectAttempt(i) ==
  /\ phase = "idle"
  /\ sockets[i].status = "waiting"
  /\ sockets[i].attempts < reconnectionAttempts
  /\ sockets' = [sockets EXCEPT ![i].status = "attempting",
                                ![i].attempts = @ + 1]
  /\ IF sockets[i].handlers
       THEN LET n == sockets[i].attempts + 1
                id == NewTimerId(TimersCleared)
            IN /\ reconnectionInfo' = Reconnecting(reconnectionInfo, n)
               /\ timers' = TimersCleared \cup
                               {[id |-> id, timeLeft |-> Delay(n),
                                 delay |-> Delay(n), ticks |-> 0]}
               /\ reconnectionTimerRef' = id
               /\ last' = [Did("onReconnectAttempt") EXCEPT !.cleared = Cancelled]
               /\ UNCHANGED <<state, connection, error, sync>>
       ELSE Unhandled
  /\ UNCHANGED <<scope, opts, phase, effect, socketRef, eventListenersRef, subs>>

\* faulty variant: the remaining time is left in place
ReconnectionStoppedKeepsRetry(info) == [info EXCEPT !.isReconnecting = FALSE]

\* setReconnectionInfo of the 'reconnect_failed' handler (lines 206-210)
ReconnectionStopped(info) ==
  [info EXCEPT !.isReconnecting = FALSE, !.nextRetryIn = 0]

\* the error of the 'reconnect_failed' handler (lines 212-216)
ReconnectFailedErrors ==
  <<ErrorPayload("connection",
                 "Failed to reconnect after " \o ToString(reconnectionAttempts)
                   \o " attempts",
                 "maxAttempts")>>

\* 'reconnect_failed' (lines 204-217): the manager gives up
ReconnectFailed(i) ==
  /\ phase = "idle"
  /\ sockets[i].status = "waiting"
  /\ sockets[i].attempts >= reconnectionAttempts
  /\ sockets' = [sockets EXCEPT ![i] = Closed(@)]
  /\ IF sockets[i].handlers
       THEN /\ timers' = TimersCleared
            /\ reconnectionTimerRef' = 0
            /\ reconnectionInfo' = ReconnectionStopped(reconnectionInfo)
            /\ error' = ErrorAfter(ReconnectFailedErrors)
            /\ last' = [Did("onReconnectFailed") EXCEPT
                          !.cleared = Cancelled,
                          !.raised = Types(ReconnectFailedErrors),
                          !.handled = HandledByEffect(ReconnectFailedErrors)]
            /\ UNCHANGED <<state, connection, sync>>
       ELSE Unhandled
  /\ UNCHANGED <<scope, opts, phase, effect, socketRef, eventListenersRef, subs>>

\* the interval callback (lines 191-201)
Tick(t) ==
  /\ phase = "idle"
  /\ LET timeLeft == Max(0, t.timeLeft - TickMs)
         ticked == (timers \ {t}) \cup
                     {[t EXCEPT !.timeLeft = timeLeft, !.ticks = @ + 1]}
     IN /\ reconnectionInfo' = [reconnectionInfo EXCEPT !.nextRetryIn = timeLeft]
        /\ IF timeLeft <= 0
             THEN /\ timers' = {u \in ticked : u.id # reconnectionTimerRef}
                  /\ reconnectionTimerRef' = 0
                  /\ last' = [Did("tick") EXCEPT !.cleared = Cancelled]
             ELSE /\ timers' = ticked
                  /\ last' = Did("tick")
                  /\ UNCHANGED reconnectionTimerRef
  /\ UNCHANGED <<scope, opts, phase, effect, state, connection, error, sockets,
                 socketRef, eventListenersRef, subs, sync>>

\* ----------------------------------------------------- state synchronizer
\* The history variable: `expected` is what the updates delivered since the
\* last accepted full update describe, key by key (the value a key was
\* given last), as long as every candidate passed validation; `partials`
\* counts the partial updates in it, up to MaxPartials.
SyncBroken == [expected |-> Null, partials |-> 0]

SyncAfterFull(validator, p) ==
  IF Rejected(validator, p) THEN SyncBroken
  ELSE [expected |-> Some(p), partials |-> 0]

SyncAfterPartial(validator, update) ==
  IF sync.expected = Null THEN sync
  ELSE IF Rejected(validator, update @@ sync.expected[1]) THEN SyncBroken
  ELSE [expected |-> Some(update @@ sync.expected[1]),
        partials |-> Min(sync.partials + 1, MaxPartials)]

\* the state after the 'stateUpdate' handler (lines 220-228)
FullUpdate(validator, prev, newState) ==
  IF Rejected(validator, newState) THEN prev ELSE Some(newState)

\* the error of the 'stateUpdate' handler (lines 220-227)
FullUpdateErrors(validator, newState) ==
  IF Rejected(validator, newState)
    THEN <<ErrorPayload("validation", "Received state failed validation", "state")>>
    ELSE <<>>

\* 'stateUpdate' (lines 219-230); the validator is the one the effect
\* closed over
StateUpdate(i, p) ==
  /\ phase = "idle"
  /\ sockets[i].status = "connected"
  /\ sockets[i].handlers
  /\ LET v == effect.stateValidator
     IN /\ state' = FullUpdate(v, state, p)
        /\ error' = ErrorAfter(FullUpdateErrors(v, p))
        /\ last' = [Did("onStateUpdate") EXCEPT
                      !.raised = Types(FullUpdateErrors(v, p)),
                      !.handled = HandledByEffect(FullUpdateErrors(v, p)),
                      !.validated = IF v # "none" THEN 1 ELSE 0]
        /\ sync' = SyncAfterFull(v, p)
  /\ UNCHANGED <<scope, opts, phase, effect, connection, reconnectionInfo, sockets,
                 socketRef, timers, reconnectionTimerRef, eventListenersRef,
                 subs>>

\* faulty variant: the merged state is returned without validation
PartialUpdateUnchecked(validator, prev, update) ==
  IF prev = Null THEN prev ELSE Some(MergeState(prev[1], update))

\* faulty variant: a missing previous state is treated as the empty object
PartialUpdateFromNothing(validator, prev, update) ==
  IF prev = Null
    THEN (IF Rejected(validator, update) THEN prev ELSE Some(update))
  ELSE IF Rejected(validator, MergeState(prev[1], update)) THEN prev
  ELSE Some(MergeState(prev[1], update))

\* the updater of the 'statePartialUpdate' handler (lines 233-247)
PartialUpdate(validator, prev, update) ==
  IF prev = Null THEN prev
  ELSE IF Rejected(validator, MergeState(prev[1], update)) THEN prev
  ELSE Some(MergeState(prev[1], update))

\* the error the updater raises (lines 237-243)
PartialUpdateErrors(validator, prev, update) ==
  IF prev # Null /\ Rejected(validator, MergeState(prev[1], update))
    THEN <<ErrorPayload("validation", "Updated state failed validation",
                        "update,previousState")>>
    ELSE <<>>

\* 'statePartialUpdate' (lines 232-249)
StatePartialUpdate(i, p) ==
  /\ phase = "idle"
  /\ sockets[i].status = "connected"
  /\ sockets[i].handlers
  /\ LET v == effect.stateValidator
     IN /\ state' = PartialUpdate(v, state, p)
        /\ error' = ErrorAfter(PartialUpdateErrors(v, state, p))
        /\ last' = [Did("onStatePartialUpdate") EXCEPT
                      !.raised = Types(PartialUpdateErrors(v, state, p)),
                      !.handled = HandledByEffect(PartialUpdateErrors(v, state, p)),
                      !.validated = IF v # "none" /\ state # Null THEN 1 ELSE 0]
        /\ sync' = SyncAfterPartial(v, p)
  /\ UNCHANGED <<scope, opts, phase, effect, connection, reconnectionInfo, sockets,
                 socketRef, timers, reconnectionTimerRef, eventListenersRef,
                 subs>>

\* 'error' (lines 251-253): the pushed payload goes to handleError as it is
ServerError(i, e) ==
  /\ phase = "idle"
  /\ sockets[i].status = "connected"
  /\ sockets[i].handlers
  /\ error' = ErrorAfter(<<e>>)
  /\ last' = [Did("onError") EXCEPT !.raised = Types(<<e>>),
                                   !.handled = HandledByEffect(<<e>>)]
  /\ UNCHANGED <<scope, opts, phase, effect, state, connection, reconnectionInfo,
                 sockets, socketRef, timers, reconnectionTimerRef,
                 eventListenersRef, subs, sync>>

\* -------------------------------------------------------- public operations
\* What a call of a public operation did: its result ("true", "false", or
\* "rejected" when an exception left the async function), the payloads it
\* passed to handleError in order, the messages it emitted, and how often it
\* called the validator.
Outcome(ret, raised, sent, validated) ==
  [ret |-> ret, raised |-> raised, sent |-> sent, validated |-> validated]

\* handleError ends by calling the caller's handler: when that raises, so
\* does handleError
Failed(handlerThrows) == IF handlerThrows THEN "rejected" ELSE "false"

\* faulty variant: reports success without emitting
UpdateStateRunUnsent(connected, update, sendThrows, handlerThrows) ==
  IF connected /\ ~sendThrows
    THEN Outcome("true", <<>>, <<>>, 0)
    ELSE Outcome(Failed(handlerThrows),
                 <<ErrorPayload("connection",
                                "Cannot update state: socket not connected",
                                "update")>>, <<>>, 0)

\* updateState (lines 281-308)
UpdateStateRun(connected, update, sendThrows, handlerThrows) ==
  IF ~connected
    THEN Outcome(Failed(handlerThrows),
                 <<ErrorPayload("connection",
                                "Cannot update state: socket not connected",
                                "update")>>, <<>>, 0)
  ELSE IF sendThrows
    THEN Outcome(Failed(handlerThrows),
                 <<ErrorPayload("unknown", "Failed to send state update",
                                "update,error")>>, <<>>, 0)
  ELSE Outcome("true", <<>>, <<Msg("updateState", "", Some(update))>>, 0)

\* replaceState (lines 310-346): the validation error is raised inside the
\* try block, so a raising handler lands in the catch block, which raises
\* the 'unknown' error through the same handler
ReplaceStateRun(connected, validator, newState, validatorThrows, sendThrows, handlerThrows) ==
  LET unknown == ErrorPayload("unknown", "Failed to send state replacement",
                              "newState,error")
      invalid == ErrorPayload("validation", "New state failed validation",
                              "newState")
      calls == IF validator # "none" THEN 1 ELSE 0
  IN IF ~connected
       THEN Outcome(Failed(handlerThrows),
                    <<ErrorPayload("connection",
                                   "Cannot replace state: socket not connected",
                                   "newState")>>, <<>>, 0)
     ELSE IF validator # "none" /\ validatorThrows
       THEN Outcome(Failed(handlerThrows), <<unknown>>, <<>>, calls)
     ELSE IF Rejected(validator, newState)
       THEN IF handlerThrows
              THEN Outcome("rejected", <<invalid, unknown>>, <<>>, calls)
              ELSE Outcome("false", <<invalid>>, <<>>, calls)
     ELSE IF sendThrows
       THEN Outcome(Failed(handlerThrows), <<unknown>>, <<>>, calls)
     ELSE Outcome("true", <<>>, <<Msg("replaceState", "", Some(newState))>>, calls)

\* whether the caller's error handler raises when it is called: only a
\* supplied handler can.  The public operations are explored with a handler,
\* a validator and a send that return or raise; the socket event handlers
\* are explored with callbacks that return, since an exception leaving an
\* event handler ends in the client library or in the renderer.
HandlerThrows == IF opts.errorHandler THEN BOOLEAN ELSE {FALSE}

\* faulty variant: a successful send is applied to the local state at once
ReturnedApplied(op, out) ==
  /\ error' = ErrorAfter(out.raised)
  /\ state' = IF out.ret = "true" THEN out.sent[1].data ELSE state
  /\ last' = [op |-> op, ret |-> out.ret, raised |-> Types(out.raised),
              sent |-> out.sent, validated |-> out.validated,
              handled |-> Handled(out.raised), cleared |-> 0]
  /\ UNCHANGED <<scope, opts, phase, effect, connection, reconnectionInfo,
                 sockets, socketRef, timers, reconnectionTimerRef,
                 eventListenersRef, subs, sync>>

\* the effects of a call on the hook: the error slot and the observation
Returned(op, out) ==
  /\ error' = ErrorAfter(out.raised)
  /\ last' = [op |-> op, ret |-> out.ret, raised |-> Types(out.raised),
              sent |-> out.sent, validated |-> out.validated,
              handled |-> Handled(out.raised), cleared |-> 0]
  /\ UNCHANGED <<scope, opts, phase, effect, state, connection, reconnectionInfo,
                 sockets, socketRef, timers, reconnectionTimerRef,
                 eventListenersRef, subs, sync>>

UpdateState(p, sendThrows, handlerThrows) ==
  /\ phase = "idle"
  /\ Returned("updateState",
              UpdateStateRun(Connected(socketRef), p, sendThrows, handlerThrows))

ReplaceState(p, validatorThrows, sendThrows, handlerThrows) ==
  /\ phase = "idle"
  /\ Returned("replaceState",
              ReplaceStateRun(Connected(socketRef), opts.stateValidator, p,
                              validatorThrows, sendThrows, handlerThrows))

\* clearError (lines 82-84)
ClearError ==
  /\ phase = "idle"
  /\ error' = Null
  /\ last' = Did("clearError")
  /\ UNCHANGED <<scope, opts, phase, effect, state, connection, reconnectionInfo,
                 sockets, socketRef, timers, reconnectionTimerRef,
                 eventListenersRef, subs, sync>>

\* reconnect (lines 348-354)
Reconnect ==
  /\ phase = "idle"
  /\ sockets' = IF socketRef # 0
                  THEN [sockets EXCEPT ![socketRef] = Opened(@)]
                  ELSE sockets
  /\ last' = Did("reconnect")
  /\ UNCHANGED <<scope, opts, phase, effect, state, connection, error,
                 reconnectionInfo, socketRef, timers, reconnectionTimerRef,
                 eventListenersRef, subs, sync>>

\* disconnect (lines 356-362): socket.disconnect() emits 'disconnect' to the
\* handlers still registered, before it returns
Disconnect ==
  /\ phase = "idle"
  /\ IF Connected(socketRef)
       THEN /\ sockets' = [sockets EXCEPT ![socketRef] = Closed(@)]
            /\ IF sockets[socketRef].handlers
                 THEN HandleDisconnect(ClientDisconnect)
                 ELSE /\ last' = Did("disconnect")
                      /\ UNCHANGED <<connection, error>>
       ELSE /\ last' = Did("disconnect")
            /\ UNCHANGED <<sockets, connection, error>>
  /\ UNCHANGED <<scope, opts, phase, effect, state, reconnectionInfo, socketRef,
                 timers, reconnectionTimerRef, eventListenersRef, subs, sync>>

\* the argument lists the caller passes to emit: none, or one object
EmitArgs == {Null} \cup {Some(p) : p \in OutPayloads}

\* faulty variant: emits whether or not the socket is connected
EmitMessagesAlways(connected, event, args) == <<Msg(event, "", args)>>

\* emit (lines 364-378)
EmitMessages(connected, event, args) ==
  IF connected THEN <<Msg(event, "", args)>> ELSE <<>>

Emit(event, args) ==
  /\ phase = "idle"
  /\ last' = [Did("emit") EXCEPT
                !.sent = EmitMessages(Connected(socketRef), event, args)]
  /\ UNCHANGED <<scope, opts, phase, effect, state, connection, error,
                 reconnectionInfo, sockets, socketRef, timers,
                 reconnectionTimerRef, eventListenersRef, subs, sync>>

\* ------------------------------------------------------------ event bridge
Listeners == {"L1", "L2"}
Stamps == 1..MaxSubs

\* socket.off(event, listener): the first registration of that listener goes
RECURSIVE RemoveFirst(_, _)
RemoveFirst(q, l) ==
  IF q = <<>> THEN q
  ELSE IF Head(q) = l THEN Tail(q)
  ELSE <<Head(q)>> \o RemoveFirst(Tail(q), l)

NewSubId == CHOOSE n \in 1..(Cardinality(subs) + 1) : \A c \in subs : c.n # n

\* on (lines 380-403): registers on the current socket, files the
\* registration under `${event}_${Date.now()}` and returns the closure that
\* undoes both; without a socket it returns a closure that does nothing
On(l, now) ==
  /\ phase = "idle"
  /\ Cardinality(subs) < (IF scope = "subscriptions" THEN MaxSubs
                           ELSE MaxSubsElsewhere)
  /\ IF socketRef # 0
       THEN /\ sockets' = [sockets EXCEPT ![socketRef].listeners = Append(@, l)]
            /\ eventListenersRef' = eventListenersRef \cup {<<"userJoined", now>>}
            /\ subs' = subs \cup {[n |-> NewSubId, socket |-> socketRef,
                                   listener |-> l, key |-> <<"userJoined", now>>,
                                   called |-> FALSE]}
       ELSE UNCHANGED <<sockets, eventListenersRef, subs>>
  /\ last' = Did("on")
  /\ UNCHANGED <<scope, opts, phase, effect, state, connection, error,
                 reconnectionInfo, socketRef, timers, reconnectionTimerRef,
                 sync>>

\* the closure on() returned (lines 393-397); the caller keeps it and may
\* call it again
Unsubscribe(c) ==
  /\ phase \in {"idle", "unmounted"}
  /\ sockets' = [sockets EXCEPT ![c.socket].listeners = RemoveFirst(@, c.listener)]
  /\ eventListenersRef' = eventListenersRef \ {c.key}
  /\ subs' = (subs \ {c}) \cup {[c EXCEPT !.called = TRUE]}
  /\ last' = Did("unsubscribe")
  /\ UNCHANGED <<scope, opts, phase, effect, state, connection, error,
                 reconnectionInfo, socketRef, timers, reconnectionTimerRef,
                 sync>>

\* ------------------------------------------------------------------- Next
AllOptions ==
  [room : Rooms, autoConnect : BOOLEAN, stateValidator : Validators,
   errorHandler : BOOLEAN]

\* mount, re-render, teardown, unmount and the 'connect' event
Lifecycle ==
  \/ RunEffect
  \/ \E o \in AllOptions : Rerender(o)
  \/ Unmount
  \/ Cleanup
  \/ \E i \in DOMAIN sockets : SocketConnect(i)

NextConnection ==
  \/ Lifecycle
  \/ \E i \in DOMAIN sockets, r \in Reasons : SocketDisconnect(i, r)
  \/ \E i \in DOMAIN sockets, m \in ConnectErrorMessages : SocketConnectError(i, m)
  \/ \E i \in DOMAIN sockets : ReconnectAttempt(i)
  \/ \E i \in DOMAIN sockets : ReconnectFailed(i)
  \/ \E t \in timers : Tick(t)
  \/ Reconnect
  \/ Disconnect

NextState ==
  \/ Lifecycle
  \/ \E i \in DOMAIN sockets : SocketDisconnect(i, "io server disconnect")
  \/ \E i \in DOMAIN sockets, p \in Payloads : StateUpdate(i, p)
  \/ \E i \in DOMAIN sockets, p \in Payloads : StatePartialUpdate(i, p)
  \/ \E p \in OutPayloads, st \in BOOLEAN, ht \in HandlerThrows :
       UpdateState(p, st, ht)
  \/ \E p \in OutPayloads, vt \in BOOLEAN, st \in BOOLEAN, ht \in HandlerThrows :
       ReplaceState(p, vt, st, ht)
  \/ ClearError
  \/ Disconnect

NextBridge ==
  \/ Lifecycle
  \/ \E i \in DOMAIN sockets, e \in ServerErrors : ServerError(i, e)
  \/ \E a \in EmitArgs : Emit("customEvent", a)
  \/ \E l \in Listeners, now \in Stamps : On(l, now)
  \/ \E c \in subs : Unsubscribe(c)
  \/ Reconnect
  \/ Disconnect

NextTeardown ==
  \/ Lifecycle
  \/ \E i \in DOMAIN sockets : SocketConnectError(i, "refused")
  \/ \E i \in DOMAIN sockets : ReconnectAttempt(i)
  \/ \E t \in timers : Tick(t)
  \/ \E l \in Listeners, now \in Stamps : On(l, now)
  \/ \E c \in subs : Unsubscribe(c)

NextSubscriptions ==
  \/ Lifecycle
  \/ \E l \in Listeners, now \in Stamps : On(l, now)
  \/ \E c \in subs : Unsubscribe(c)

Next ==
  \/ scope = "teardown" /\ NextTeardown
  \/ scope = "subscriptions" /\ NextSubscriptions
  \/ scope = "connection" /\ NextConnection
  \/ scope = "state" /\ NextState
  \/ scope = "bridge" /\ NextBridge

Spec == Init /\ [][Next]_vars

ConnectionScenario == Init /\ scope = "connection"
StateScenario == Init /\ scope = "state"
BridgeScenario == Init /\ scope = "bridge"
TeardownScenario == Init /\ scope = "teardown"
SubscriptionsScenario == Init /\ scope = "subscriptions"

\* one scenario at a time
SpecConnection == ConnectionScenario /\ [][NextConnection]_vars
SpecState == StateScenario /\ [][NextState]_vars
SpecBridge == BridgeScenario /\ [][NextBridge]_vars
SpecTeardown == TeardownScenario /\ [][NextTeardown]_vars
SpecSubscriptions == SubscriptionsScenario /\ [][NextSubscriptions]_vars

\* ----------------------------------------------------------------- claims
PublicStateOps == {"updateState", "replaceState"}

\* C1: in every reachable state connection.isConnected and
\* connection.isConnecting are not both true.
C1_NotConnectedAndConnecting ==
  ~(connection.isConnected /\ connection.isConnecting)

\* the state C1 excludes, right after the effect re-opened the connection
C1_BothFlagsSet ==
  /\ connection.isConnected /\ connection.isConnecting
  /\ last.op = "effect" /\ Len(sockets) = 2

\* C2: when the validator the handler consults rejects the candidate of an
\* inbound update (the payload of a stateUpdate, the merge of the previous
\* state and the payload of a statePartialUpdate), the state after the event
\* is the state before it and exactly a 'validation' error is raised.
C2_RejectedUpdateKeepsState ==
  [][\A i \in DOMAIN sockets, p \in Payloads :
       /\ (StateUpdate(i, p) /\ Rejected(effect.stateValidator, p))
            => /\ state' = state
               /\ last'.raised = <<"validation">>
               /\ error' # Null /\ error'[1].type = "validation"
       /\ (/\ StatePartialUpdate(i, p)
           /\ state # Null
           /\ Rejected(effect.stateValidator, p @@ state[1]))
            => /\ state' = state
               /\ last'.raised = <<"validation">>
               /\ error' # Null /\ error'[1].type = "validation"]_vars

\* a partial update whose merge was rejected: the earlier, valid state is kept
C2_RejectedPartial ==
  /\ last.op = "onStatePartialUpdate"
  /\ last.raised = <<"validation">>
  /\ state # Null /\ Accepts("countNonNeg", state[1])
  /\ DOMAIN state[1] = Keys

\* C3: after an accepted full update followed by partial updates whose
\* candidates all passed validation, the state is the full state overlaid
\* with the partial updates in arrival order (a key holds the value it was
\* given last, a key no update names keeps its value).
C3_StateIsMergeOfUpdates == sync.expected # Null => state = sync.expected

\* two partial updates applied on top of a full update
C3_TwoPartialsMerged ==
  /\ sync.partials = 2
  /\ sync.expected # Null /\ state = sync.expected
  /\ DOMAIN state[1] = Keys
  /\ last.op = "onStatePartialUpdate"

\* C4: a partial update arriving while the state is null leaves it null,
\* whatever the payload and with or without a validator.
C4_PartialOnNullKeepsNull ==
  [][\A i \in DOMAIN sockets, p \in Payloads :
       (StatePartialUpdate(i, p) /\ state = Null) => state' = Null]_vars

\* a partial update has been handled and the state is still null
C4_PartialBeforeFull ==
  /\ last.op = "onStatePartialUpdate"
  /\ state = Null
  /\ effect.stateValidator = "countNonNeg"

\* C5: updateState and replaceState called while the socket is not connected
\* return false, raise exactly a 'connection' error, send nothing and do not
\* consult the validator.
C5_NotConnectedFails ==
  [][\A p \in OutPayloads, vt \in BOOLEAN, st \in BOOLEAN, ht \in HandlerThrows :
       ((UpdateState(p, st, ht) \/ ReplaceState(p, vt, st, ht))
          /\ ~Connected(socketRef))
         => /\ last'.ret = "false"
            /\ last'.raised = <<"connection">>
            /\ last'.sent = <<>>
            /\ last'.validated = 0]_vars

\* a call made while not connected ended with an exception
C5_NotConnectedRejected ==
  /\ last.op \in PublicStateOps
  /\ last.raised = <<"connection">>
  /\ last.ret = "rejected"

\* C6: replaceState called while connected with a payload the validator
\* rejects sends nothing, records exactly one 'validation' error, leaves the
\* state unchanged and returns false.
C6_RejectedReplaceFails ==
  [][\A p \in OutPayloads, st \in BOOLEAN, ht \in HandlerThrows :
       (/\ ReplaceState(p, FALSE, st, ht)
        /\ Connected(socketRef)
        /\ Rejected(opts.stateValidator, p))
         => /\ last'.sent = <<>>
            /\ last'.raised = <<"validation">>
            /\ state' = state
            /\ last'.ret = "false"]_vars

\* a rejected replaceState that raised two errors and ended with an exception
C6_RejectedReplaceRejected ==
  /\ last.op = "replaceState"
  /\ last.raised = <<"validation", "unknown">>
  /\ last.ret = "rejected"

\* C7: updateState and replaceState called while connected, with a send that
\* throws, return false and raise exactly an 'unknown' error; the state is
\* unchanged.
C7_SendFailureFails ==
  [][\A p \in OutPayloads, ht \in HandlerThrows :
       (/\ Connected(socketRef)
        /\ \/ UpdateState(p, TRUE, ht)
           \/ ReplaceState(p, FALSE, TRUE, ht) /\ ~Rejected(opts.stateValidator, p))
         => /\ last'.ret = "false"
            /\ last'.raised = <<"unknown">>
            /\ state' = state]_vars

\* a failed send whose error report ended with an exception
C7_SendFailureRejected ==
  /\ last.op \in PublicStateOps
  /\ last.raised = <<"unknown">>
  /\ last.validated = 0
  /\ last.ret = "rejected"

\* C8: every call of updateState or replaceState completes with a boolean:
\* no call ends with an exception, whatever the send, the validator and the
\* error handler do.
C8_NeverRejects ==
  last.op \in PublicStateOps => last.ret \in {"true", "false"}

\* a call of updateState that ended with an exception
C8_UpdateStateRejected ==
  last.op = "updateState" /\ last.ret = "rejected"

\* C9: updateState called while connected, with a send that returns, emits
\* exactly one 'updateState' message carrying the argument, returns true,
\* raises no error and does not consult the validator.
C9_UpdateStateSends ==
  [][\A p \in OutPayloads, ht \in HandlerThrows :
       (UpdateState(p, FALSE, ht) /\ Connected(socketRef))
         => /\ last'.sent = <<Msg("updateState", "", Some(p))>>
            /\ last'.ret = "true"
            /\ last'.raised = <<>>
            /\ last'.validated = 0
            /\ error' = error]_vars

\* a partial the configured validator would reject was sent
C9_InvalidPartialSent ==
  /\ last.op = "updateState" /\ last.ret = "true"
  /\ Len(last.sent) = 1
  /\ Rejected(opts.stateValidator, last.sent[1].data[1])

\* C10: a step that changes the application state is the handling of an
\* inbound stateUpdate or statePartialUpdate; every other callback leaves
\* the state as it is.
C10_OnlyInboundUpdatesChangeState ==
  [][state' # state =>
       \E i \in DOMAIN sockets, p \in Payloads :
         StateUpdate(i, p) \/ StatePartialUpdate(i, p)]_vars

\* the state outlives a disconnect of the socket
C10_StateKeptAfterDisconnect ==
  /\ last.op = "onDisconnect"
  /\ ~connection.isConnected
  /\ state # Null

\* the observable effects C11 requires of a handled 'disconnect' with reason r
DisconnectHandled(r) ==
  /\ ~connection'.isConnected
  /\ connection'.disconnectReason = r
  /\ IF r = "io server disconnect"
       THEN /\ last'.raised = <<"connection">>
            /\ error' # Null /\ error'[1].type = "connection"
       ELSE /\ last'.raised = <<>>
            /\ error' = error

\* C11: every 'disconnect' event the handler receives makes isConnected
\* false and records the reason; exactly one error, of type 'connection',
\* is raised when the reason is the server-initiated one, and for any other
\* reason no error is raised and the error slot is unchanged.
C11_DisconnectRecorded ==
  [][/\ \A i \in DOMAIN sockets, r \in Reasons :
          (SocketDisconnect(i, r) /\ sockets[i].handlers) => DisconnectHandled(r)
     /\ (Disconnect /\ Connected(socketRef) /\ sockets[socketRef].handlers)
          => DisconnectHandled(ClientDisconnect)]_vars

\* a disconnect with another reason left an earlier error in the slot
C11_DisconnectKeptError ==
  /\ last.op = "onDisconnect"
  /\ connection.disconnectReason = ClientDisconnect
  /\ ~connection.isConnected
  /\ error # Null /\ error[1].type = "validation"

\* C12: every 'connect' event the handler receives sets attempt to 0,
\* isReconnecting to false and nextRetryIn to 0 and leaves no live timer; a
\* timer appears again only with a retry notification (so no tick changes
\* nextRetryIn in between); and a step that takes attempt back to 0 is a
\* 'connect' event that takes isConnected from false to true.
C12_ConnectResetsReconnection ==
  [][/\ \A i \in DOMAIN sockets :
          (SocketConnect(i) /\ sockets[i].handlers)
            => /\ reconnectionInfo'.attempt = 0
               /\ ~reconnectionInfo'.isReconnecting
               /\ reconnectionInfo'.nextRetryIn = 0
               /\ timers' = {} /\ reconnectionTimerRef' = 0
     /\ (timers = {} /\ timers' # {})
          => \E i \in DOMAIN sockets : ReconnectAttempt(i)
     /\ (reconnectionInfo'.nextRetryIn # reconnectionInfo.nextRetryIn /\ timers = {})
          => \E i \in DOMAIN sockets : SocketConnect(i) \/ ReconnectFailed(i)
     /\ (reconnectionInfo.attempt # 0 /\ reconnectionInfo'.attempt = 0)
          => /\ \E i \in DOMAIN sockets : SocketConnect(i) /\ sockets[i].handlers
             /\ ~connection.isConnected /\ connection'.isConnected]_vars

\* a retry in progress while isConnected is still true from the socket the
\* hook tore down: the connect that ends it resets attempt without any
\* change of isConnected
C12_RetryWhileFlaggedConnected ==
  /\ connection.isConnected
  /\ reconnectionInfo.attempt # 0
  /\ socketRef # 0 /\ sockets[socketRef].status = "attempting"
  /\ sockets[socketRef].handlers

\* C13: a 'connect' event the handler receives emits exactly one joinRoom
\* message, for the configured room, when a room is configured, and no
\* message otherwise; the message is emitted by the handler itself, after it
\* has set the status to connected and before any other callback runs.
C13_JoinRoomOnConnect ==
  [][\A i \in DOMAIN sockets :
       (SocketConnect(i) /\ sockets[i].handlers)
         => /\ connection'.isConnected
            /\ last'.sent = IF opts.room # ""
                              THEN <<Msg("joinRoom", opts.room, Null)>>
                              ELSE <<>>]_vars

\* the socket opened after the room changed has joined the new room
C13_JoinedNewRoom ==
  /\ last.op = "onConnect"
  /\ last.sent = <<Msg("joinRoom", "lobby", Null)>>
  /\ connection.isConnected
  /\ Len(sockets) = 2

\* C14: when the handler receives retry notification N, nextRetryIn is
\* min(reconnectionDelay * 2^(N-1), reconnectionDelayMax) afterwards; every
\* tick then lowers nextRetryIn by 1000, or to 0 when less than that is left.
C14_CountdownStartsAtDelay ==
  [][/\ \A i \in DOMAIN sockets :
          (ReconnectAttempt(i) /\ sockets[i].handlers)
            => LET N == sockets[i].attempts + 1
               IN /\ reconnectionInfo'.attempt = N
                  /\ reconnectionInfo'.nextRetryIn =
                       Min(reconnectionDelay * (2 ^ (N - 1)), reconnectionDelayMax)
     /\ \A t \in timers :
          Tick(t) => reconnectionInfo'.nextRetryIn =
                       Max(0, reconnectionInfo.nextRetryIn - 1000)]_vars

\* retry notification 1 has been handled, its countdown of 1000 ms is
\* running, and nextRetryIn is 0
C14_NotifiedWithoutDelay ==
  /\ last.op = "onReconnectAttempt"
  /\ reconnectionInfo.attempt = 1
  /\ reconnectionInfo.nextRetryIn = 0
  /\ \E t \in timers : t.id = reconnectionTimerRef /\ t.timeLeft = reconnectionDelay

\* C15: at most one countdown timer is live, and a live timer is the one
\* reconnectionTimerRef holds: a cancelled or superseded countdown has no
\* timer left that could tick.
C15_AtMostOneTimer ==
  /\ Cardinality(timers) <= 1
  /\ \A t \in timers : t.id = reconnectionTimerRef

\* a retry notification superseded a countdown that was still running
C15_CountdownSuperseded ==
  /\ last.op = "onReconnectAttempt" /\ last.cleared = 1
  /\ reconnectionInfo.attempt = 2
  /\ Cardinality(timers) = 1

\* C16: a 'reconnect_failed' notification the handler receives leaves no
\* live timer, sets isReconnecting to false and nextRetryIn to 0, and raises
\* exactly one error, of type 'connection', whose message names the
\* configured maximum number of attempts.
C16_ReconnectFailedStops ==
  [][\A i \in DOMAIN sockets :
       (ReconnectFailed(i) /\ sockets[i].handlers)
         => /\ timers' = {} /\ reconnectionTimerRef' = 0
            /\ ~reconnectionInfo'.isReconnecting
            /\ reconnectionInfo'.nextRetryIn = 0
            /\ last'.raised = <<"connection">>
            /\ error' # Null /\ error'[1].type = "connection"
            /\ error'[1].message =
                 "Failed to reconnect after "
                   \o ToString(reconnectionInfo.maxAttempts) \o " attempts"]_vars

\* the retries are exhausted: the running countdown was stopped with time
\* left and the error names the three attempts
C16_GaveUpDuringCountdown ==
  /\ last.op = "onReconnectFailed" /\ last.cleared = 1
  /\ reconnectionInfo.attempt = reconnectionInfo.maxAttempts
  /\ ~reconnectionInfo.isReconnecting /\ reconnectionInfo.nextRetryIn = 0
  /\ error # Null /\ error[1].message = "Failed to reconnect after 3 attempts"

\* C17: the cleanup that runs at unmount or teardown while a countdown is
\* active leaves no live timer, leaves the socket without the hook's
\* built-in handlers and without any listener registered through on(), and
\* closes the socket.
C17_TeardownLeavesNothing ==
  [][(Cleanup /\ timers # {})
       => /\ timers' = {}
          /\ ~sockets'[effect.socket].handlers
          /\ sockets'[effect.socket].listeners = <<>>
          /\ sockets'[effect.socket].status = "closed"]_vars

\* unmounted during a countdown: the timer is gone and the socket closed,
\* but a listener added through on() is still registered on it
C17_ListenerLeftAfterUnmount ==
  /\ phase = "unmounted"
  /\ last.op = "cleanup" /\ last.cleared = 1
  /\ timers = {}
  /\ sockets[effect.socket].status = "closed"
  /\ sockets[effect.socket].listeners # <<>>

\* C18: at no point does the hook have two sockets that are open (connected,
\* connecting or retrying), nor two sockets that carry its built-in handlers.
C18_OneConnection ==
  /\ Cardinality({i \in DOMAIN sockets : sockets[i].status # "closed"}) <= 1
  /\ Cardinality({i \in DOMAIN sockets : sockets[i].handlers}) <= 1

\* the effect has opened a second socket while the first one is open
C18_TwoOpenSockets ==
  /\ last.op = "effect"
  /\ Len(sockets) = 2
  /\ sockets[1].status # "closed" /\ sockets[2].status # "closed"

\* C19: the error slot holds the error raised last, with its type, message,
\* code and details; every raised error is passed once to the error handler
\* the caller supplies; and the slot is emptied only by clearError() or by a
\* successful connect.
C19_SingleErrorSlot ==
  [][/\ last'.raised # <<>> =>
          /\ error' # Null
          /\ error'[1].type = last'.raised[Len(last'.raised)]
          /\ opts'.errorHandler => last'.handled = Len(last'.raised)
     /\ \A i \in DOMAIN sockets : \A e \in ServerErrors :
          ServerError(i, e) => error' = Some(e)
     /\ \A i \in DOMAIN sockets : \A m \in ConnectErrorMessages :
          (SocketConnectError(i, m) /\ sockets[i].handlers)
            => /\ error'[1].message = m
               /\ error'[1].details = "originalError"
     /\ (last'.raised = <<>> /\ error' # error) =>
          /\ error' = Null
          /\ last'.op \in {"clearError", "onConnect"}]_vars

\* the server pushed an error after the caller had supplied an error handler
\* on a later render, and the handler was not called
C19_LateHandlerNotCalled ==
  /\ last.op = "onError"
  /\ opts.errorHandler
  /\ ~effect.errorHandler
  /\ last.handled = 0
  /\ error # Null /\ error[1].type = "server"

\* C20: a connect failure raises the error type of the last bucket, in the
\* order timeout, authentication, authorization, whose substring ('timeout',
\* 'auth', 'unauthorized') occurs in the message, and 'connection' if none
\* occurs: 'unauthorized' wins over 'auth', which wins over 'timeout'.
C20_ClassifiedByLastMatch ==
  last.op = "onConnectError" =>
    /\ error # Null
    /\ error[1].message \in ConnectErrorMessages
    /\ last.raised = <<error[1].type>>
    /\ error[1].type =
         IF Includes(error[1].message, "unauthorized") THEN "authorization"
         ELSE IF Includes(error[1].message, "auth") THEN "authentication"
         ELSE IF Includes(error[1].message, "timeout") THEN "timeout"
         ELSE "connection"

\* C20 as stated: the type is that of the first bucket, in the order
\* timeout, authentication, authorization, whose substring occurs in the
\* message, and 'connection' if none occurs.
C20_ClassifiedByFirstMatch ==
  last.op = "onConnectError" =>
    /\ error # Null
    /\ error[1].type =
         IF Includes(error[1].message, "timeout") THEN "timeout"
         ELSE IF Includes(error[1].message, "auth") THEN "authentication"
         ELSE IF Includes(error[1].message, "unauthorized") THEN "authorization"
         ELSE "connection"

\* a connect failure whose message contains both 'auth' and 'timeout' was
\* raised as an 'authentication' error
C20_AuthTimeoutRaised ==
  /\ last.op = "onConnectError"
  /\ last.raised = <<"authentication">>
  /\ error # Null
  /\ error[1].message = "auth timeout"
  /\ error[1].type = "authentication"

\* C21: a connect failure raises 'authorization' when its message contains
\* 'unauthorized', 'authentication' when it contains 'auth' but not
\* 'unauthorized', 'timeout' when it contains 'timeout' and no 'auth', and
\* 'connection' when it contains none of them; the error of the new failure
\* replaces whatever the slot held.
C21_ConnectFailureBuckets ==
  [][last'.op = "onConnectError" =>
       \A i \in DOMAIN sockets : \A m \in ConnectErrorMessages :
         SocketConnectError(i, m) =>
           /\ error' # Null
           /\ error'[1].message = m
           /\ Includes(m, "unauthorized") => error'[1].type = "authorization"
           /\ (Includes(m, "auth") /\ ~Includes(m, "unauthorized"))
                => error'[1].type = "authentication"
           /\ (Includes(m, "timeout") /\ ~Includes(m, "auth"))
                => error'[1].type = "timeout"
           /\ (~Includes(m, "timeout") /\ ~Includes(m, "auth"))
                => error'[1].type = "connection"]_vars

\* a retry that was rejected as unauthorized replaced the error of the
\* failure that had started the retries
C21_RetryFailureReplaced ==
  /\ last.op = "onConnectError"
  /\ reconnectionInfo.attempt >= 1
  /\ error # Null
  /\ error[1].message = "unauthorized"
  /\ error[1].type = "authorization"

\* C22: emit(event, args) sends exactly that event with those arguments when
\* the socket the hook refers to is connected; otherwise it sends nothing;
\* in both cases it raises no error and leaves the error slot, the
\* connection state and the application state as they were.
C22_EmitOnlyWhenConnected ==
  [][last'.op = "emit" =>
       \A a \in EmitArgs :
         Emit("customEvent", a) =>
           /\ Connected(socketRef) => last'.sent = <<Msg("customEvent", "", a)>>
           /\ ~Connected(socketRef) => last'.sent = <<>>
           /\ last'.raised = <<>>
           /\ last'.handled = 0
           /\ error' = error
           /\ connection' = connection
           /\ state' = state
           /\ sockets' = sockets]_vars

\* emit was called with an argument on a socket that had been closed, while
\* the slot held an error
C22_EmitOnClosedSocket ==
  /\ last.op = "emit"
  /\ last.sent = <<>>
  /\ socketRef # 0
  /\ sockets[socketRef].status = "closed"
  /\ error # Null

\* C23: every subscription made through on() whose unsubscribe closure has
\* not been called has its own registration on the socket, and every
\* registration belongs to such a subscription: for each socket and each
\* listener, the socket holds as many registrations of the listener as
\* there are subscriptions of it that were not unsubscribed.
C23_OwnRegistrationEach ==
  \A i \in DOMAIN sockets : \A l \in Listeners :
    Cardinality({k \in 1..Len(sockets[i].listeners) :
                   sockets[i].listeners[k] = l})
      = Cardinality({c \in subs :
                       ~c.called /\ c.socket = i /\ c.listener = l})

\* two subscriptions of the same listener were made, one of them was
\* unsubscribed, and the socket holds no registration for the other one
C23_OtherSubscriptionRemoved ==
  /\ last.op = "unsubscribe"
  /\ \E a \in subs, b \in subs :
       /\ a.called /\ ~b.called
       /\ a.socket = b.socket /\ a.listener = b.listener
       /\ sockets[b.socket].listeners = <<>>

\* C24: reading the status as Connected (isConnected), Connecting
\* (isConnecting) and Idle/Disconnected (neither flag), every change of
\* status is one of Idle/Disconnected to Connecting, Connecting to
\* Connected, Connected to Disconnected, Connecting to Disconnected:
\* Connected is never entered directly from Disconnected.
C24_StatusTransitions ==
  [][LET Status(c) == IF c.isConnected THEN "Connected"
                      ELSE IF c.isConnecting THEN "Connecting"
                      ELSE "Disconnected"
     IN Status(connection') # Status(connection) =>
          <<Status(connection), Status(connection')>> \in
            {<<"Disconnected", "Connecting">>, <<"Connecting", "Connected">>,
             <<"Connected", "Disconnected">>, <<"Connecting", "Disconnected">>}]_vars

\* the status reads Disconnected while a reconnection attempt of the hook's
\* socket is in progress: its success enters Connected from Disconnected
C24_AttemptWhileDisconnected ==
  /\ last.op = "onReconnectAttempt"
  /\ ~connection.isConnected /\ ~connection.isConnecting
  /\ socketRef # 0
  /\ sockets[socketRef].status = "attempting"
  /\ sockets[socketRef].handlers

\* C25: when the status is Disconnected (neither flag set), a reconnect()
\* that starts an attempt on the hook's socket, and a retry notification the
\* hook receives, set isConnecting.
C25_ReconnectShowsConnecting ==
  [][(/\ ~connection.isConnected /\ ~connection.isConnecting
      /\ \/ /\ last'.op = "reconnect"
            /\ socketRef # 0
            /\ sockets[socketRef].status = "closed"
            /\ sockets'[socketRef].status = "opening"
         \/ last'.op = "onReconnectAttempt")
       => connection'.isConnecting]_vars

\* reconnect() started an attempt on a closed socket that carries the
\* handlers, and the status still reads Disconnected
C25_ManualAttemptNotShown ==
  /\ last.op = "reconnect"
  /\ socketRef # 0
  /\ sockets[socketRef].status = "opening"
  /\ sockets[socketRef].handlers
  /\ ~connection.isConnected /\ ~connection.isConnecting
  /\ connection.disconnectReason = "io server disconnect"

\* C26: disconnect() called while the status is Connecting and the hook's
\* socket is opened but not yet connected closes the socket and clears
\* isConnecting.
C26_DisconnectWhileConnecting ==
  [][(/\ Disconnect
      /\ connection.isConnecting /\ ~connection.isConnected
      /\ socketRef # 0
      /\ sockets[socketRef].status = "opening")
       => /\ sockets'[socketRef].status = "closed"
          /\ ~connection'.isConnecting]_vars

\* disconnect() returned while the first attempt of the socket was in
\* progress, and the attempt and the Connecting status are still there
C26_StillConnectingAfterDisconnect ==
  /\ last.op = "disconnect"
  /\ socketRef # 0
  /\ sockets[socketRef].status = "opening"
  /\ sockets[socketRef].handlers
  /\ connection.isConnecting /\ ~connection.isConnected

\* C27: in every state of a mounted hook, reconnect() calls connect() on the
\* hook's socket: after the call a socket exists and it is connected or a
\* connection attempt on it is under way.
C27_ReconnectAlwaysAttempts ==
  [][Reconnect => /\ socketRef' # 0
                  /\ sockets'[socketRef'].status # "closed"]_vars

\* reconnect() was called on a hook mounted without auto-connect: there is
\* no socket, and none was created
C27_ReconnectWithoutSocket ==
  /\ last.op = "reconnect"
  /\ phase = "idle"
  /\ ~opts.autoConnect
  /\ socketRef = 0
  /\ sockets = <<>>

\* C28: when the effect of the mount has run, state and error are null,
\* isConnected and isReconnecting are false, attempt and nextRetryIn are 0,
\* and isConnecting is true exactly when auto-connect is enabled; a socket
\* has been opened exactly in that case, and as long as auto-connect stays
\* disabled no socket is opened and both status flags stay false.
C28_AfterMount ==
  [][/\ (phase = "mounting" /\ RunEffect) =>
          /\ state' = Null
          /\ error' = Null
          /\ ~connection'.isConnected
          /\ connection'.isConnecting = opts.autoConnect
          /\ ~reconnectionInfo'.isReconnecting
          /\ reconnectionInfo'.attempt = 0
          /\ reconnectionInfo'.nextRetryIn = 0
          /\ Len(sockets') = (IF opts.autoConnect THEN 1 ELSE 0)
          /\ socketRef' = Len(sockets')
     /\ (sockets = <<>> /\ ~opts'.autoConnect) =>
          /\ sockets' = <<>>
          /\ ~connection'.isConnected /\ ~connection'.isConnecting]_vars

\* a hook mounted without auto-connect on which reconnect() was called: no
\* socket, status Idle
C28_IdleWithoutAutoConnect ==
  /\ last.op = "reconnect"
  /\ ~opts.autoConnect
  /\ sockets = <<>>
  /\ ~connection.isConnected /\ ~connection.isConnecting
  /\ state = Null /\ error = Null

\* C29: the countdown started by retry notification N, with delay =
\* min(reconnectionDelay * 2^(N-1), reconnectionDelayMax), ends with its
\* tick number ceil(delay / 1000): every earlier tick leaves a positive
\* nextRetryIn and the timer running, that tick sets nextRetryIn to exactly
\* 0 and cancels the timer, so that no later tick occurs; nextRetryIn is
\* never negative.
C29_CountdownTerminates ==
  [][last'.op = "tick" =>
       \A t \in timers :
         Tick(t) =>
           LET n == t.ticks + 1
               total == (t.delay + TickMs - 1) \div TickMs
           IN /\ t.delay = Min(reconnectionDelay * (2 ^ (reconnectionInfo.attempt - 1)),
                               reconnectionDelayMax)
              /\ n <= total
              /\ reconnectionInfo'.nextRetryIn >= 0
              /\ n < total =>
                   /\ reconnectionInfo'.nextRetryIn > 0
                   /\ \E u \in timers' : u.id = t.id /\ u.ticks = n
              /\ n = total =>
                   /\ reconnectionInfo'.nextRetryIn = 0
                   /\ timers' = {}
                   /\ reconnectionTimerRef' = 0]_vars

\* the countdown of the third retry, whose delay of 2500 ms is no multiple
\* of the period, has cancelled itself with nextRetryIn 0
C29_ThirdCountdownEnded ==
  /\ last.op = "tick"
  /\ last.cleared = 1
  /\ reconnectionInfo.attempt = 3
  /\ reconnectionInfo.nextRetryIn = 0
  /\ timers = {}
  /\ reconnectionTimerRef = 0

\* C30: an inbound stateUpdate or statePartialUpdate whose candidate state
\* (the payload, or the previous state overlaid with the payload) is
\* rejected by the validator of the hook's most recent options is not
\* applied and raises a 'validation' error, also when that validator was
\* supplied on a render that changed no connection parameter.
C30_LatestValidatorApplies ==
  [][\A i \in DOMAIN sockets : \A p \in Payloads :
       /\ (/\ last'.op = "onStateUpdate"
           /\ StateUpdate(i, p)
           /\ Rejected(opts.stateValidator, p))
            => /\ state' = state
               /\ last'.raised = <<"validation">>
       /\ (/\ last'.op = "onStatePartialUpdate"
           /\ StatePartialUpdate(i, p)
           /\ state # Null
           /\ Rejected(opts.stateValidator, p @@ state[1]))
            => /\ state' = state
               /\ last'.raised = <<"validation">>]_vars

\* a full update with a negative count was applied although the validator
\* of the current options, supplied after the effect ran, rejects it
C30_StaleValidatorAccepted ==
  /\ last.op = "onStateUpdate"
  /\ last.raised = <<>>
  /\ effect.stateValidator = "none"
  /\ opts.stateValidator = "countNonNeg"
  /\ state # Null
  /\ Rejected(opts.stateValidator, state[1])

\* C31: whenever connection.isConnected is true the socket the hook refers
\* to is connected, so that an updateState called in such a state does not
\* fail with the 'not connected' error; also right after a teardown and
\* re-open caused by a changed connection parameter.
C31_StatusAgreesWithSocket ==
  /\ connection.isConnected => Connected(socketRef)
  /\ (last.op = "updateState" /\ connection.isConnected)
       => \A k \in 1..Len(last.raised) : last.raised[k] # "connection"

\* updateState failed with the 'not connected' error on the socket the
\* effect had just re-opened, while isConnected was true
C31_UpdateRefusedWhileShownConnected ==
  /\ last.op = "updateState"
  /\ last.ret = "false"
  /\ last.raised = <<"connection">>
  /\ connection.isConnected
  /\ Len(sockets) = 2
  /\ socketRef = 2
  /\ sockets[2].status = "opening"

\* C32: whenever the socket the hook refers to is open (connecting,
\* retrying or connected) the hook's built-in handlers are attached to it,
\* and whenever it is connected connection.isConnected is true; reconnect()
\* never re-opens a socket whose handlers a teardown removed.
C32_OpenSocketHasHandlers ==
  socketRef # 0 =>
    /\ sockets[socketRef].status # "closed" => sockets[socketRef].handlers
    /\ sockets[socketRef].status = "connected" => connection.isConnected

\* reconnect() re-opened the socket that the teardown for auto-connect off
\* had closed and stripped of its handlers, and that socket has connected
\* without the hook noticing
C32_ConnectedUnnoticed ==
  /\ last.op = ""
  /\ ~opts.autoConnect
  /\ socketRef # 0
  /\ sockets[socketRef].status = "connected"
  /\ ~sockets[socketRef].handlers
  /\ ~connection.isConnected

\* C33: every listener subscribed through on() whose unsubscribe closure has
\* not been called is registered on the socket the hook currently refers
\* to, also after the hook has torn down its connection and opened a new
\* one because a connection parameter changed.
C33_ListenersFollowSocket ==
  \A c \in subs :
    (~c.called /\ phase = "idle" /\ effect.live)
      => \E k \in 1..Len(sockets[socketRef].listeners) :
           sockets[socketRef].listeners[k] = c.listener

\* the effect has opened the second socket; the subscription made on the
\* first one was not unsubscribed, and the second socket has no listener
C33_ListenerLeftBehind ==
  /\ last.op = "effect"
  /\ effect.live
  /\ socketRef = 2
  /\ sockets[2].listeners = <<>>
  /\ \E c \in subs : ~c.called /\ c.socket = 1
  /\ sockets[1].listeners # <<>>

\* C34: in every reachable state a live countdown timer or a non-zero
\* reconnectionInfo.nextRetryIn implies reconnectionInfo.isReconnecting;
\* every step that clears isReconnecting leaves no timer and nextRetryIn 0.
C34_CountdownImpliesReconnecting ==
  (timers # {} \/ reconnectionInfo.nextRetryIn # 0)
    => reconnectionInfo.isReconnecting

\* the retries were given up in the middle of a countdown: isReconnecting
\* is cleared, no timer is left and nextRetryIn is back at 0
C34_GaveUpMidCountdown ==
  /\ last.op = "onReconnectFailed"
  /\ last.cleared = 1
  /\ ~reconnectionInfo.isReconnecting
  /\ reconnectionInfo.nextRetryIn = 0
  /\ timers = {}

====
